---- MODULE Spec2Model ----
(***************************************************************************)
(* Model of src/app.js: clause segmentation, Ratcliff/Obershelp similarity, *)
(* clause diffing, status classification and the UI handlers that drive     *)
(* them.                                                                    *)
(*                                                                          *)
(* Strings are sequences of UTF-16 code units (32 = " ", 10 = "\n",         *)
(* 46 = ".", 48..57 = "0".."9", 65 = "A", 97 = "a", ...).                   *)
(* Numbers that are floats in the program (similarity, thresholds) are      *)
(* exact rationals [num, den] with den > 0.                                 *)
(***************************************************************************)
EXTENDS Integers, Sequences, FiniteSets, TLC

VARIABLES
  scorer,         \* one call of similarityRatio(a, b)
  norm,           \* the comparison normalization applied once and twice
  seg,            \* one call of extractClausesFromText(text)
  cmp,            \* one call of compareClauses followed by classifyStatus
  etalonParsed,   \* let etalonParsed            (app.js:366)
  clientFiles,    \* let clientFiles             (app.js:367)
  lastRunState,   \* let lastRunState            (app.js:368)
  runBtnDisabled, \* $("runBtn").disabled
  etalonInput,    \* name of $("etalonFile").files[0], "" for none
  etalonTasks,    \* etalonFile change handlers suspended at their await
  runs,           \* runBtn click handlers suspended at their await
  rendered        \* the calls of renderResults since $("results") was emptied

vars == <<scorer, norm, seg, cmp, etalonParsed, clientFiles, lastRunState,
          runBtnDisabled, etalonInput, etalonTasks, runs, rendered>>

uiVars == <<etalonParsed, clientFiles, lastRunState, runBtnDisabled,
            etalonInput, etalonTasks, runs, rendered>>

\* null, for the variables that hold an object or null
Null == [null |-> TRUE]
NoFile == ""
Idle == [pc |-> "idle"]

\* the UI before any event, as the pure-function specifications leave it
UiAtRest ==
  /\ etalonParsed = Null /\ clientFiles = <<>> /\ lastRunState = Null
  /\ runBtnDisabled = TRUE /\ etalonInput = NoFile /\ etalonTasks = <<>>
  /\ runs = <<>> /\ rendered = <<>>


(***************************************************************************)
(* Bounds of the model.                                                     *)
(***************************************************************************)
MaxLen == 4         \* length of the strings given to similarityRatio
MaxText == 5        \* length of the texts given to the normalization
MaxPatterns == 2    \* length of the ignore-pattern list
MaxLines == 4       \* number of lines of a segmented text
MaxClauses == 2     \* number of clauses of a compared clause map
MaxDiffs == 3       \* length of a classified diff list
MaxFiles == 2       \* number of candidate files of a selection
MaxEtalonTasks == 2 \* etalonFile handlers suspended at the same time
MaxRuns == 1        \* run handlers suspended at the same time

(***************************************************************************)
(* Program constants.                                                       *)
(***************************************************************************)
MaxNumGroups == 6   \* {0,6} in CL_START_RE
Sentinel == 1000000000   \* 1e9 in sortClauseRef
MinTextLength == 50 \* parsed.text.length < 50 in the run handler

(***************************************************************************)
(* Generic helpers.                                                         *)
(***************************************************************************)
Max(x, y) == IF x >= y THEN x ELSE y

\* F(x), with x evaluated once, before F is applied to its value
Eval(F(_), x) == CHOOSE r \in {F(v) : v \in {x}} : TRUE

SeqsUpTo(S, n) == UNION {[1..k -> S] : k \in 0..n}

\* a.slice(from, to) on 0-based indices, to exclusive
Slice(s, from, to) == IF to <= from THEN <<>> ELSE SubSeq(s, from + 1, to)

\* [num |-> 0, den |-> 0] is NaN: every comparison with it is false
RatLt(x, y) == x.den # 0 /\ y.den # 0 /\ x.num * y.den < y.num * x.den
RatEq(x, y) == x.den # 0 /\ y.den # 0 /\ x.num * y.den = y.num * x.den

(***************************************************************************)
(* Ratcliff/Obershelp similarity (app.js:41-74).                            *)
(***************************************************************************)
\* mutant of lcsInner: "curr[j]>=bestLen", which keeps the last longest run
RECURSIVE lcsInner_lastRun(_, _, _, _, _, _, _, _)
lcsInner_lastRun(a, b, i, j, prev, curr, bestLen, bestEnd) ==
  IF j > Len(b) THEN [curr |-> curr, bestLen |-> bestLen, bestEnd |-> bestEnd]
  ELSE IF a[i] = b[j]
       THEN LET v == prev[j - 1] + 1
            IN  IF v >= bestLen
                THEN lcsInner_lastRun(a, b, i, j + 1, prev,
                                      [curr EXCEPT ![j] = v], v, i)
                ELSE lcsInner_lastRun(a, b, i, j + 1, prev,
                                      [curr EXCEPT ![j] = v], bestLen, bestEnd)
       ELSE lcsInner_lastRun(a, b, i, j + 1, prev, [curr EXCEPT ![j] = 0],
                             bestLen, bestEnd)

\* inner loop "for(let j=1;j<=m;j++)" of longestCommonSubstring, row i
RECURSIVE lcsInner(_, _, _, _, _, _, _, _)
lcsInner(a, b, i, j, prev, curr, bestLen, bestEnd) ==
  IF j > Len(b) THEN [curr |-> curr, bestLen |-> bestLen, bestEnd |-> bestEnd]
  ELSE IF a[i] = b[j]
       THEN LET v == prev[j - 1] + 1
            IN  IF v > bestLen
                THEN lcsInner(a, b, i, j + 1, prev, [curr EXCEPT ![j] = v], v, i)
                ELSE lcsInner(a, b, i, j + 1, prev, [curr EXCEPT ![j] = v],
                              bestLen, bestEnd)
       ELSE lcsInner(a, b, i, j + 1, prev, [curr EXCEPT ![j] = 0],
                     bestLen, bestEnd)

\* outer loop "for(let i=1;i<=n;i++)", followed by the copy of curr to prev
RECURSIVE lcsOuter(_, _, _, _, _, _, _)
lcsOuter(a, b, i, prev, curr, bestLen, bestEnd) ==
  IF i > Len(a) THEN [bestLen |-> bestLen, bestEnd |-> bestEnd]
  ELSE LET r == lcsInner(a, b, i, 1, prev, curr, bestLen, bestEnd)
       IN  lcsOuter(a, b, i + 1, r.curr, r.curr, r.bestLen, r.bestEnd)

longestCommonSubstring(a, b) ==
  LET zero == [j \in 0..Len(b) |-> 0]
  IN  lcsOuter(a, b, 1, zero, zero, 0, 0)

\* String.prototype.indexOf(mid): 0-based index of the first occurrence, -1 if none
RECURSIVE indexOfFrom(_, _, _)
indexOfFrom(b, mid, k) ==
  IF k + Len(mid) > Len(b) THEN -1
  ELSE IF Slice(b, k, k + Len(mid)) = mid THEN k
  ELSE indexOfFrom(b, mid, k + 1)

indexOf(b, mid) == indexOfFrom(b, mid, 0)

RECURSIVE roMatches(_, _)

\* mutant of roMatches: the right part of b starts at bStart, not after the run
roMatches_rightFromStart(a, b) ==
  IF a = <<>> \/ b = <<>> THEN 0
  ELSE LET r == longestCommonSubstring(a, b)
       IN  IF r.bestLen = 0 THEN 0
           ELSE LET aStart == r.bestEnd - r.bestLen
                    mid    == Slice(a, aStart, r.bestEnd)
                    bStart == indexOf(b, mid)
                    left   == roMatches(Slice(a, 0, aStart), Slice(b, 0, bStart))
                    right  == roMatches(Slice(a, r.bestEnd, Len(a)),
                                        Slice(b, bStart, Len(b)))
                IN  r.bestLen + left + right

roMatches(a, b) ==
  IF a = <<>> \/ b = <<>> THEN 0
  ELSE LET r == longestCommonSubstring(a, b)
       IN  IF r.bestLen = 0 THEN 0
           ELSE LET aStart == r.bestEnd - r.bestLen
                    mid    == Slice(a, aStart, r.bestEnd)
                    bStart == indexOf(b, mid)
                    left   == roMatches(Slice(a, 0, aStart), Slice(b, 0, bStart))
                    right  == roMatches(Slice(a, r.bestEnd, Len(a)),
                                        Slice(b, bStart + r.bestLen, Len(b)))
                IN  r.bestLen + left + right

similarityRatio(a, b) ==
  IF a = <<>> /\ b = <<>> THEN [num |-> 1, den |-> 1]
  ELSE [num |-> 2 * roMatches(a, b), den |-> Len(a) + Len(b)]

(***************************************************************************)
(* SpecScorer: similarityRatio as a call on two strings over "a","b","c".   *)
(***************************************************************************)
ScorerAlphabet == {97, 98, 99}
ScorerStrings == SeqsUpTo(ScorerAlphabet, MaxLen)

InitScorer ==
  /\ scorer \in [pc : {"call"}, a : ScorerStrings, b : ScorerStrings,
                 ratio : {[num |-> 0, den |-> 1]}]
  /\ norm = Idle /\ seg = Idle /\ cmp = Idle
  /\ UiAtRest

CallSimilarityRatio ==
  /\ scorer.pc = "call"
  /\ scorer' = [scorer EXCEPT !.pc = "return",
                              !.ratio = similarityRatio(scorer.a, scorer.b)]
  /\ UNCHANGED <<norm, seg, cmp>>
  /\ UNCHANGED uiVars

NextScorer == CallSimilarityRatio

SpecScorer == InitScorer /\ [][NextScorer]_vars

(***************************************************************************)
(* Text normalization (app.js:19-27, 140-141).                              *)
(***************************************************************************)
\* the code units matched by \s and stripped by String.prototype.trim
WhiteSpace ==
  {9, 10, 11, 12, 13, 32, 160, 5760, 8232, 8233, 8239, 8287, 12288, 65279}
    \cup (8192..8202)

\* String.prototype.toLowerCase on Latin and Cyrillic capitals
LowerChar(c) ==
  IF c \in 65..90 THEN c + 32
  ELSE IF c \in 1040..1071 THEN c + 32
  ELSE c

toLowerCase(s) == [k \in 1..Len(s) |-> LowerChar(s[k])]

\* s.replace of trailing white space by ""
RECURSIVE trimEnd(_)
trimEnd(s) ==
  IF s # <<>> /\ s[Len(s)] \in WhiteSpace THEN trimEnd(SubSeq(s, 1, Len(s) - 1))
  ELSE s

RECURSIVE trimStart(_)
trimStart(s) ==
  IF s # <<>> /\ s[1] \in WhiteSpace THEN trimStart(Tail(s)) ELSE s

trim(s) == trimStart(trimEnd(s))

\* mutant of collapseWS: WS_RE without the g flag, only the first run is replaced
RECURSIVE collapseWS_firstRunOnly(_)
collapseWS_firstRunOnly(s) ==
  IF s = <<>> THEN <<>>
  ELSE IF s[1] \in WhiteSpace THEN <<32>> \o trimStart(s)
  ELSE <<s[1]>> \o collapseWS_firstRunOnly(Tail(s))

\* s.replace(WS_RE, " "): every maximal run of white space becomes one space
RECURSIVE collapseWS(_)
collapseWS(s) ==
  IF s = <<>> THEN <<>>
  ELSE IF s[1] \in WhiteSpace THEN <<32>> \o collapseWS(trimStart(s))
  ELSE <<s[1]>> \o collapseWS(Tail(s))

normalizeWS(s) == trim(collapseWS(s))

\* An ignore regex is new RegExp(line, "ig") for a line of literal
\* characters: it matches its source text, ignoring case.
MatchesAt(t, rgx, k) ==
  /\ k + Len(rgx) <= Len(t)
  /\ \A n \in 1..Len(rgx) : LowerChar(t[k + n]) = LowerChar(rgx[n])

\* t.replace(rgx, ""): the matches are found left to right, without overlap
RECURSIVE removeMatches(_, _, _)
removeMatches(t, rgx, k) ==
  IF k >= Len(t) THEN <<>>
  ELSE IF MatchesAt(t, rgx, k) THEN removeMatches(t, rgx, k + Len(rgx))
  ELSE <<t[k + 1]>> \o removeMatches(t, rgx, k + 1)

RECURSIVE applyIgnore(_, _)
applyIgnore(text, ignoreRegexes) ==
  IF ignoreRegexes = <<>> THEN text
  ELSE applyIgnore(removeMatches(text, Head(ignoreRegexes), 0),
                   Tail(ignoreRegexes))

\* normalizeWS(applyIgnore(text, ignoreRegexes)).toLowerCase()
normalizeForCompare(text, ignoreRegexes) ==
  toLowerCase(normalizeWS(applyIgnore(text, ignoreRegexes)))

(***************************************************************************)
(* Clause segmentation (app.js:18, 94-117).                                 *)
(*                                                                          *)
(* CL_START_RE reads, from the start of the line: white space, an optional *)
(* lead-in, the number "num" (digits, then at most 6 groups of a dot and    *)
(* digits), white space, a separator (one of ")", ".", "-", the en dash and *)
(* ":", followed by white space; or white space alone), and "rest": every   *)
(* character up to the end of the line, none of them a line terminator.     *)
(* Each greedy choice of the pattern is forced by the character that must   *)
(* follow it (a digit after the lead-in, white space or the end after the   *)
(* number), so the match is computed left to right.                         *)
(***************************************************************************)
Digits == 48..57
\* the characters "." does not match
LineTerminators == {10, 13, 8232, 8233}
\* the separator class: ")", ".", "-", en dash, ":"
SeparatorChars == {41, 46, 45, 8211, 58}

\* 0-based index of the first character at or after k that is not in S
RECURSIVE skipWhile(_, _, _)
skipWhile(s, k, S) ==
  IF k < Len(s) /\ s[k + 1] \in S THEN skipWhile(s, k + 1, S) ELSE k

\* index after at most n further groups of a dot and digits
RECURSIVE numGroups(_, _, _)
numGroups(s, k, n) ==
  IF /\ n > 0
     /\ k + 1 < Len(s)
     /\ s[k + 1] = 46
     /\ s[k + 2] \in Digits
  THEN numGroups(s, skipWhile(s, k + 1, Digits), n - 1)
  ELSE k

\* the lead-in tokens, in the order of the alternation
LeadIns ==
  << <<1087>>,                                             \* "п"
     <<1087, 1087>>,                                       \* "пп"
     <<1087, 1091, 1085, 1082, 1090>>,                     \* "пункт"
     <<1087, 1086, 1076, 1087, 1091, 1085, 1082, 1090>> >> \* "подпункт"

NoMatch == [ok |-> FALSE, num |-> <<>>, rest |-> <<>>]

\* the number, the separator and the rest, from index k
matchNumber(s, k) ==
  IF ~(k < Len(s) /\ s[k + 1] \in Digits) THEN NoMatch
  ELSE LET q     == numGroups(s, skipWhile(s, k, Digits), MaxNumGroups)
           w     == skipWhile(s, q, WhiteSpace)
           bySep == /\ w + 1 < Len(s)
                    /\ s[w + 1] \in SeparatorChars
                    /\ s[w + 2] \in WhiteSpace
           r     == IF bySep THEN skipWhile(s, w + 1, WhiteSpace) ELSE w
           rest  == Slice(s, r, Len(s))
       IN  IF (bySep \/ w > q) /\ \A n \in 1..Len(rest) : rest[n] \notin LineTerminators
           THEN [ok |-> TRUE, num |-> Slice(s, k, q), rest |-> rest]
           ELSE NoMatch

\* lead-in alternative n: the token (any case), an optional dot, white
\* space, then the number
matchLeadIn(s, k, n) ==
  LET tok == LeadIns[n]
  IN  IF MatchesAt(s, tok, k)
      THEN LET d == k + Len(tok)
               e == IF d < Len(s) /\ s[d + 1] = 46 THEN d + 1 ELSE d
           IN  matchNumber(s, skipWhile(s, e, WhiteSpace))
      ELSE NoMatch

\* ln.match(CL_START_RE)
matchClauseStart(ln) ==
  LET k == skipWhile(ln, 0, WhiteSpace)
  IN  IF matchLeadIn(ln, k, 1).ok THEN matchLeadIn(ln, k, 1)
      ELSE IF matchLeadIn(ln, k, 2).ok THEN matchLeadIn(ln, k, 2)
      ELSE IF matchLeadIn(ln, k, 3).ok THEN matchLeadIn(ln, k, 3)
      ELSE IF matchLeadIn(ln, k, 4).ok THEN matchLeadIn(ln, k, 4)
      ELSE matchNumber(ln, k)

\* text.split(/\r?\n/): cur is the line being read
RECURSIVE splitLines(_, _)
splitLines(text, cur) ==
  IF text = <<>> THEN <<cur>>
  ELSE IF text[1] = 10 THEN <<cur>> \o splitLines(Tail(text), <<>>)
  ELSE IF text[1] = 13 /\ Len(text) > 1 /\ text[2] = 10
       THEN <<cur>> \o splitLines(Tail(Tail(text)), <<>>)
  ELSE splitLines(Tail(text), Append(cur, text[1]))

\* parts.join("\n")
RECURSIVE join(_, _)
join(parts, sep) ==
  IF parts = <<>> THEN <<>>
  ELSE IF Len(parts) = 1 THEN parts[1]
  ELSE parts[1] \o sep \o join(Tail(parts), sep)

\* A Map is the sequence of its entries [k, v] in insertion order.
MapHas(m, k) == \E n \in 1..Len(m) : m[n].k = k
MapGet(m, k) == m[CHOOSE n \in 1..Len(m) : m[n].k = k].v
MapSet(m, k, v) ==
  IF MapHas(m, k) THEN [n \in 1..Len(m) |-> IF m[n].k = k THEN [k |-> k, v |-> v] ELSE m[n]]
  ELSE Append(m, [k |-> k, v |-> v])
MapKeys(m) == {m[n].k : n \in 1..Len(m)}

\* let current=null: the cursor before the first heading
NoCurrent == "null"

\* mutant of segmentLine: a heading always opens a new, empty entry
segmentLine_reopenEmpty(st, ln0) ==
  LET ln == trimEnd(ln0)
      m  == matchClauseStart(ln)
  IN  IF trim(ln) = <<>> THEN st
      ELSE IF m.ok /\ m.num # <<>>
      THEN LET opened == MapSet(st.clauses, m.num, <<>>)
               rest   == trim(m.rest)
           IN  [current |-> m.num,
                clauses |-> IF rest # <<>>
                            THEN MapSet(opened, m.num,
                                        Append(MapGet(opened, m.num), rest))
                            ELSE opened]
      ELSE IF st.current = NoCurrent THEN st
      ELSE [st EXCEPT !.clauses =
              MapSet(st.clauses, st.current,
                     Append(MapGet(st.clauses, st.current), trim(ln)))]

\* one iteration of "for(const ln of lines)", ln0 not yet right-trimmed
segmentLine(st, ln0) ==
  LET matched(ln, m) ==
        IF trim(ln) = <<>> THEN st
        ELSE IF m.ok /\ m.num # <<>>
        THEN LET opened == IF MapHas(st.clauses, m.num) THEN st.clauses
                           ELSE MapSet(st.clauses, m.num, <<>>)
                 rest   == trim(m.rest)
             IN  [current |-> m.num,
                  clauses |-> IF rest # <<>>
                              THEN MapSet(opened, m.num,
                                          Append(MapGet(opened, m.num), rest))
                              ELSE opened]
        ELSE IF st.current = NoCurrent THEN st
        ELSE [st EXCEPT !.clauses =
                MapSet(st.clauses, st.current,
                       Append(MapGet(st.clauses, st.current), trim(ln)))]
      line(ln) == Eval(LAMBDA m : matched(ln, m), matchClauseStart(ln))
  IN  Eval(line, trimEnd(ln0))

\* the loop "for(const ln of lines)" from line n on
RECURSIVE segmentLines(_, _, _)
segmentLines(st, lines, n) ==
  IF n > Len(lines) THEN st
  ELSE LET rest(next) == segmentLines(next, lines, n + 1)
       IN  Eval(rest, segmentLine(st, lines[n]))

extractClausesFromText(text) ==
  LET entries(st) ==
        [n \in 1..Len(st.clauses) |->
           [k |-> st.clauses[n].k, v |-> trim(join(st.clauses[n].v, <<10>>))]]
      segment(lines) ==
        Eval(entries,
             segmentLines([current |-> NoCurrent, clauses |-> <<>>], lines, 1))
  IN  Eval(segment, splitLines(text, <<>>))

(***************************************************************************)
(* Clause reference ordering (app.js:29-39).                                *)
(***************************************************************************)
NaN == [num |-> 0, den |-> 0]
Undefined == [undefined |-> TRUE]

\* a.split(".")
RECURSIVE splitDots(_, _)
splitDots(a, cur) ==
  IF a = <<>> THEN <<cur>>
  ELSE IF a[1] = 46 THEN <<cur>> \o splitDots(Tail(a), <<>>)
  ELSE splitDots(Tail(a), Append(cur, a[1]))

\* the result of parseInt when there is no digit to read
NotANumber == [finite |-> FALSE, val |-> 0]

RECURSIVE digitsValue(_, _)
digitsValue(x, acc) ==
  IF x = <<>> \/ x[1] \notin Digits THEN acc
  ELSE digitsValue(Tail(x), 10 * acc + (x[1] - 48))

\* parseInt(x, 10): leading white space, an optional sign, then the longest
\* prefix of digits; NaN when there is no digit
parseInt(x) ==
  LET t    == trimStart(x)
      neg  == t # <<>> /\ t[1] = 45
      body == IF t # <<>> /\ t[1] \in {43, 45} THEN Tail(t) ELSE t
  IN  IF body = <<>> \/ body[1] \notin Digits THEN NotANumber
      ELSE [finite |-> TRUE,
            val    |-> IF neg THEN 0 - digitsValue(body, 0)
                       ELSE digitsValue(body, 0)]

\* String.prototype.localeCompare on strings of digits and dots, where the
\* collation order is the order of the code units
RECURSIVE localeCompare(_, _)
localeCompare(a, b) ==
  IF a = <<>> /\ b = <<>> THEN 0
  ELSE IF a = <<>> THEN -1
  ELSE IF b = <<>> THEN 1
  ELSE IF a[1] < b[1] THEN -1
  ELSE IF a[1] > b[1] THEN 1
  ELSE localeCompare(Tail(a), Tail(b))

\* Number.isFinite(pa[i]) ? pa[i] : 1e9   (i is 1-based here)
refComponent(pa, i) ==
  IF i <= Len(pa) /\ pa[i].finite THEN pa[i].val ELSE Sentinel

RECURSIVE sortClauseRefFrom(_, _, _, _, _)
sortClauseRefFrom(a, b, pa, pb, i) ==
  IF i > Max(Len(pa), Len(pb)) THEN localeCompare(a, b)
  ELSE LET va == refComponent(pa, i)
           vb == refComponent(pb, i)
       IN  IF va # vb THEN va - vb
           ELSE sortClauseRefFrom(a, b, pa, pb, i + 1)

sortClauseRef(a, b) ==
  LET sa == splitDots(a, <<>>)
      sb == splitDots(b, <<>>)
      pa == [n \in 1..Len(sa) |-> parseInt(sa[n])]
      pb == [n \in 1..Len(sb) |-> parseInt(sb[n])]
  IN  sortClauseRefFrom(a, b, pa, pb, 1)

(***************************************************************************)
(* compareClauses and classifyStatus (app.js:128-171).                      *)
(***************************************************************************)
\* x.diff_type.localeCompare(y.diff_type)
DiffTypeRank(t) == CASE t = "CHANGED" -> 1 [] t = "EXTRA" -> 2 [] t = "MISSING" -> 3

diffTypeCompare(x, y) ==
  IF DiffTypeRank(x) < DiffTypeRank(y) THEN -1
  ELSE IF DiffTypeRank(x) > DiffTypeRank(y) THEN 1 ELSE 0

\* the comparator given to diffs.sort
diffOrder(x, y) ==
  LET c == sortClauseRef(x.clause_ref, y.clause_ref)
  IN  IF c # 0 THEN c ELSE diffTypeCompare(x.diff_type, y.diff_type)

\* Array.prototype.sort is stable: x goes after the elements that are not
\* greater than it
RECURSIVE insertSorted(_, _)
insertSorted(sorted, x) ==
  IF sorted = <<>> THEN <<x>>
  ELSE IF diffOrder(Head(sorted), x) <= 0
       THEN <<Head(sorted)>> \o insertSorted(Tail(sorted), x)
       ELSE <<x>> \o sorted

RECURSIVE sortDiffs(_)
sortDiffs(diffs) ==
  IF diffs = <<>> THEN <<>>
  ELSE insertSorted(sortDiffs(SubSeq(diffs, 1, Len(diffs) - 1)), diffs[Len(diffs)])

DefaultSimilarityThreshold == [num |-> 985, den |-> 1000]
DefaultCriticalMinSim == [num |-> 97, den |-> 100]

\* mutant of missingOrChanged: "sim <= simThreshold"
RECURSIVE missingOrChanged_notAbove(_, _, _, _, _)
missingOrChanged_notAbove(etalonMap, clientMap, ignoreRegexes, simThreshold, n) ==
  IF n > Len(etalonMap) THEN <<>>
  ELSE LET ref    == etalonMap[n].k
           etText == etalonMap[n].v
           later  == missingOrChanged_notAbove(etalonMap, clientMap,
                                               ignoreRegexes, simThreshold, n + 1)
       IN  IF ~MapHas(clientMap, ref)
           THEN <<[clause_ref |-> ref, diff_type |-> "MISSING",
                   similarity |-> Undefined]>> \o later
           ELSE LET a   == normalizeForCompare(etText, ignoreRegexes)
                    b   == normalizeForCompare(MapGet(clientMap, ref), ignoreRegexes)
                    sim == similarityRatio(a, b)
                IN  IF RatLt(sim, simThreshold) \/ RatEq(sim, simThreshold)
                    THEN <<[clause_ref |-> ref, diff_type |-> "CHANGED",
                            similarity |-> sim]>> \o later
                    ELSE later

\* the loop "missing / changed" over the entries of etalonMap from index n
RECURSIVE missingOrChanged(_, _, _, _, _)
missingOrChanged(etalonMap, clientMap, ignoreRegexes, simThreshold, n) ==
  IF n > Len(etalonMap) THEN <<>>
  ELSE LET ref    == etalonMap[n].k
           etText == etalonMap[n].v
           later  == missingOrChanged(etalonMap, clientMap, ignoreRegexes,
                                      simThreshold, n + 1)
       IN  IF ~MapHas(clientMap, ref)
           THEN <<[clause_ref |-> ref, diff_type |-> "MISSING",
                   similarity |-> Undefined]>> \o later
           ELSE LET a   == normalizeForCompare(etText, ignoreRegexes)
                    b   == normalizeForCompare(MapGet(clientMap, ref), ignoreRegexes)
                    sim == similarityRatio(a, b)
                IN  IF RatLt(sim, simThreshold)
                    THEN <<[clause_ref |-> ref, diff_type |-> "CHANGED",
                            similarity |-> sim]>> \o later
                    ELSE later

\* mutant of extra: the test "!etalonMap.has(ref)" is dropped
RECURSIVE extra_everyClientClause(_, _, _)
extra_everyClientClause(etalonMap, clientMap, n) ==
  IF n > Len(clientMap) THEN <<>>
  ELSE <<[clause_ref |-> clientMap[n].k, diff_type |-> "EXTRA",
          similarity |-> Undefined]>>
         \o extra_everyClientClause(etalonMap, clientMap, n + 1)

\* the loop "extra" over the entries of clientMap from index n
RECURSIVE extra(_, _, _)
extra(etalonMap, clientMap, n) ==
  IF n > Len(clientMap) THEN <<>>
  ELSE IF ~MapHas(etalonMap, clientMap[n].k)
       THEN <<[clause_ref |-> clientMap[n].k, diff_type |-> "EXTRA",
               similarity |-> Undefined]>> \o extra(etalonMap, clientMap, n + 1)
       ELSE extra(etalonMap, clientMap, n + 1)

compareClauses(etalonMap, clientMap, opts) ==
  LET simThreshold == IF opts.similarityThreshold = Undefined
                      THEN DefaultSimilarityThreshold
                      ELSE opts.similarityThreshold
  IN  sortDiffs(missingOrChanged(etalonMap, clientMap, opts.ignoreRegexes,
                                 simThreshold, 1)
                \o extra(etalonMap, clientMap, 1))

\* mutant of scanDiffs: a MISSING diff escalates whether or not its clause
\* is critical
RECURSIVE scanDiffs_anyMissing(_, _, _)
scanDiffs_anyMissing(diffs, criticalSet, criticalMinSim) ==
  IF diffs = <<>> THEN "DIFFS"
  ELSE LET d   == Head(diffs)
           sim == IF d.similarity = Undefined THEN [num |-> 0, den |-> 1]
                  ELSE d.similarity
       IN  IF d.diff_type = "MISSING"
           THEN "NOT_APPLIED"
           ELSE IF /\ d.clause_ref \in criticalSet
                   /\ d.diff_type = "CHANGED"
                   /\ RatLt(sim, criticalMinSim)
           THEN "NOT_APPLIED"
           ELSE scanDiffs_anyMissing(Tail(diffs), criticalSet, criticalMinSim)

\* the loop "for(const d of diffs)" of classifyStatus
RECURSIVE scanDiffs(_, _, _)
scanDiffs(diffs, criticalSet, criticalMinSim) ==
  IF diffs = <<>> THEN "DIFFS"
  ELSE LET d   == Head(diffs)
           sim == IF d.similarity = Undefined THEN [num |-> 0, den |-> 1]
                  ELSE d.similarity
       IN  IF d.clause_ref \in criticalSet /\ d.diff_type = "MISSING"
           THEN "NOT_APPLIED"
           ELSE IF /\ d.clause_ref \in criticalSet
                   /\ d.diff_type = "CHANGED"
                   /\ RatLt(sim, criticalMinSim)
           THEN "NOT_APPLIED"
           ELSE scanDiffs(Tail(diffs), criticalSet, criticalMinSim)

classifyStatus(diffs, criticalSet, criticalMinSim) ==
  IF Len(diffs) = 0 THEN "OK"
  ELSE scanDiffs(diffs, criticalSet, criticalMinSim)

(***************************************************************************)
(* SpecNorm: the normalization applied to a text, then to its own result.   *)
(* Texts are over "a", "A", " ", "\n"; the patterns are "a", "aa", "a a".   *)
(***************************************************************************)
NormAlphabet == {97, 65, 32, 10}
NormTexts == SeqsUpTo(NormAlphabet, MaxText)
NormPatterns == {<<97>>, <<97, 97>>, <<97, 32, 97>>}
NormPatternLists == SeqsUpTo(NormPatterns, MaxPatterns)

InitNorm ==
  /\ norm \in [pc : {"first"}, t : NormTexts, p : NormPatternLists,
               once : {<<>>}, twice : {<<>>}]
  /\ scorer = Idle /\ seg = Idle /\ cmp = Idle
  /\ UiAtRest

NormalizeFirst ==
  /\ norm.pc = "first"
  /\ norm' = [norm EXCEPT !.pc = "second",
                          !.once = normalizeForCompare(norm.t, norm.p)]
  /\ UNCHANGED <<scorer, seg, cmp>>
  /\ UNCHANGED uiVars

NormalizeAgain ==
  /\ norm.pc = "second"
  /\ norm' = [norm EXCEPT !.pc = "done",
                          !.twice = normalizeForCompare(norm.once, norm.p)]
  /\ UNCHANGED <<scorer, seg, cmp>>
  /\ UNCHANGED uiVars

NextNorm == NormalizeFirst \/ NormalizeAgain

SpecNorm == InitNorm /\ [][NextNorm]_vars

\* some ignore pattern of p has a match in t
SomePatternMatches(t, p) ==
  \E n \in 1..Len(p) : \E k \in 0..Len(t) : MatchesAt(t, p[n], k)

\* C10 as claimed: normalize(normalize(t, p), p) == normalize(t, p) for every
\* text t and every ignore-pattern list p.
C10_Idempotent ==
  norm.pc = "done" => norm.twice = norm.once

\* C10 amended: normalize(normalize(t, p), p) == normalize(t, p) whenever no
\* ignore pattern of p matches normalize(t, p) (in particular for an empty
\* pattern list).
C10_IdempotentWhenNoPatternLeft ==
  (norm.pc = "done" /\ ~SomePatternMatches(norm.once, norm.p)) =>
    norm.twice = norm.once

\* a text that lost pattern matches, white space and capitals in the first
\* pass and holds no match afterwards
C10_Witness ==
  /\ norm.pc = "done"
  /\ norm.p # <<>>
  /\ SomePatternMatches(norm.t, norm.p)
  /\ ~SomePatternMatches(norm.once, norm.p)
  /\ norm.once # <<>>
  /\ Len(norm.once) < Len(norm.t)
  /\ toLowerCase(norm.t) # norm.t

(***************************************************************************)
(* SpecSeg: extractClausesFromText on a text made of sample lines, each     *)
(* given with the way the segmenter is to see it.                           *)
(***************************************************************************)
SegSamples ==
  { [raw |-> <<>>,                      kind |-> "blank",
     ref |-> <<>>,         rest |-> <<>>],                \* ""
    [raw |-> <<32, 9>>,                 kind |-> "blank",
     ref |-> <<>>,         rest |-> <<>>],                \* " \t"
    [raw |-> <<50, 46, 49, 32, 70, 111, 111>>, kind |-> "heading",
     ref |-> <<50, 46, 49>>, rest |-> <<70, 111, 111>>],  \* "2.1 Foo"
    [raw |-> <<50, 46, 50, 32, 66, 97, 122>>,  kind |-> "heading",
     ref |-> <<50, 46, 50>>, rest |-> <<66, 97, 122>>],   \* "2.2 Baz"
    [raw |-> <<32, 1055, 46, 32, 50, 46, 49, 41, 32, 32, 121, 32>>,
     kind |-> "heading",
     ref |-> <<50, 46, 49>>, rest |-> <<121>>],           \* " П. 2.1)  y "
    [raw |-> <<98, 97, 114>>,           kind |-> "plain",
     ref |-> <<>>,         rest |-> <<98, 97, 114>>],     \* "bar"
    [raw |-> <<32, 120, 32, 122, 32>>,  kind |-> "plain",
     ref |-> <<>>,         rest |-> <<120, 32, 122>>],    \* " x z "
    [raw |-> <<50, 46, 49, 46, 113>>,   kind |-> "plain",
     ref |-> <<>>,         rest |-> <<50, 46, 49, 46, 113>>] } \* "2.1.q"

SegEols == {<<10>>, <<13, 10>>}

InitSeg ==
  /\ \E lines \in SeqsUpTo(SegSamples, MaxLines) : \E eol \in SegEols :
       seg = [pc   |-> "call",
              view |-> [n \in 1..Len(lines) |->
                          [kind |-> lines[n].kind, ref |-> lines[n].ref,
                           rest |-> lines[n].rest]],
              text |-> join([n \in 1..Len(lines) |-> lines[n].raw], eol),
              out  |-> <<>>]
  /\ scorer = Idle /\ norm = Idle /\ cmp = Idle
  /\ UiAtRest

CallExtractClauses ==
  /\ seg.pc = "call"
  /\ seg' = [seg EXCEPT !.pc = "return",
                        !.out = extractClausesFromText(seg.text)]
  /\ UNCHANGED <<scorer, norm, cmp>>
  /\ UNCHANGED uiVars

NextSeg == CallExtractClauses

SpecSeg == InitSeg /\ [][NextSeg]_vars

\* the heading line that governs line n: the last heading at or before n
\* (0 if there is none)
GoverningHeading(view, n) ==
  LET hs == {j \in 1..n : view[j].kind = "heading"}
  IN  IF hs = {} THEN 0 ELSE CHOOSE j \in hs : \A q \in hs : q <= j

\* the fragments of ref r among the first n lines, in document order
RECURSIVE Fragments(_, _, _)
Fragments(view, r, n) ==
  IF n = 0 THEN <<>>
  ELSE LET g == GoverningHeading(view, n)
       IN  IF /\ view[n].kind # "blank"
              /\ g # 0
              /\ view[g].ref = r
           THEN Append(Fragments(view, r, n - 1), view[n].rest)
           ELSE Fragments(view, r, n - 1)

\* the refs of the heading lines among the first n, in order of first
\* occurrence
RECURSIVE FirstOccurrences(_, _)
FirstOccurrences(view, n) ==
  IF n = 0 THEN <<>>
  ELSE LET before == FirstOccurrences(view, n - 1)
       IN  IF /\ view[n].kind = "heading"
              /\ \A j \in 1..Len(before) : before[j] # view[n].ref
           THEN Append(before, view[n].ref)
           ELSE before

ExpectedClauses(view) ==
  LET keys == FirstOccurrences(view, Len(view))
  IN  [n \in 1..Len(keys) |->
         [k |-> keys[n],
          v |-> trim(join(Fragments(view, keys[n], Len(view)), <<10>>))]]

\* C6: the map returned by extractClausesFromText has exactly the refs of
\* the heading lines as keys, in order of first occurrence, and the body of
\* ref r is the trimmed newline-join, in document order, of the rest of every
\* heading line for r and of every trimmed plain line governed by a heading
\* for r; blank lines and the preamble contribute nothing, a repeated
\* heading appends to the existing entry, no heading gives an empty map.
C6_SegmentationByHeadings ==
  seg.pc = "return" => seg.out = ExpectedClauses(seg.view)

\* a text with a preamble line, a clause that is re-opened after another
\* clause, and a plain line under a heading
C6_Witness ==
  /\ seg.pc = "return"
  /\ Len(seg.view) >= 4
  /\ seg.view[1].kind = "plain"
  /\ \E i, j, k \in 1..Len(seg.view) :
       /\ i < j /\ j < k
       /\ seg.view[i].kind = "heading"
       /\ seg.view[j].kind = "heading"
       /\ seg.view[k].kind = "heading"
       /\ seg.view[i].ref = seg.view[k].ref
       /\ seg.view[i].ref # seg.view[j].ref
  /\ Len(seg.out) = 2

\* the example of the claim: "2.1 Foo\nbar\n\n2.2 Baz"
C6_Example ==
  (seg.pc = "return" /\
   seg.text = <<50, 46, 49, 32, 70, 111, 111, 10, 98, 97, 114, 10, 10,
                50, 46, 50, 32, 66, 97, 122>>) =>
    seg.out = << [k |-> <<50, 46, 49>>, v |-> <<70, 111, 111, 10, 98, 97, 114>>],
                 [k |-> <<50, 46, 50>>, v |-> <<66, 97, 122>>] >>

(***************************************************************************)
(* SpecCompare: compareClauses on two clause maps, then classifyStatus on   *)
(* its result.  The refs are "2", "2.1", "10" and "02"; the bodies are "ab" *)
(* and "Ba  x"; the ignore pattern is "x".                                  *)
(***************************************************************************)
CmpRefs == {<<50>>, <<50, 46, 49>>, <<49, 48>>, <<48, 50>>}
CmpBodies == {<<97, 98>>, <<66, 97, 32, 32, 120>>}
CmpEntries == [k : CmpRefs, v : CmpBodies]
ClauseMaps ==
  {m \in SeqsUpTo(CmpEntries, MaxClauses) :
     \A i, j \in 1..Len(m) : i # j => m[i].k # m[j].k}
CmpIgnoreLists == {<<>>, << <<120>> >>}
CmpThresholds ==
  {Undefined, [num |-> 1, den |-> 2], [num |-> 1, den |-> 1],
   [num |-> 3, den |-> 2]}

InitCompare ==
  /\ cmp \in [pc : {"compare"},
              etalonMap : ClauseMaps, clientMap : ClauseMaps,
              opts : [ignoreRegexes : CmpIgnoreLists,
                      similarityThreshold : CmpThresholds],
              criticalSet : {{<<50, 46, 49>>}},
              criticalMinSim : {DefaultCriticalMinSim},
              diffs : {<<>>}, status : {""}]
  /\ scorer = Idle /\ norm = Idle /\ seg = Idle
  /\ UiAtRest

CallCompareClauses ==
  /\ cmp.pc = "compare"
  /\ cmp' = [cmp EXCEPT !.pc = "classify",
                        !.diffs = compareClauses(cmp.etalonMap, cmp.clientMap,
                                                 cmp.opts)]
  /\ UNCHANGED <<scorer, norm, seg>>
  /\ UNCHANGED uiVars

CallClassifyStatus ==
  /\ cmp.pc = "classify"
  /\ cmp' = [cmp EXCEPT !.pc = "done",
                        !.status = classifyStatus(cmp.diffs, cmp.criticalSet,
                                                  cmp.criticalMinSim)]
  /\ UNCHANGED <<scorer, norm, seg>>
  /\ UNCHANGED uiVars

NextCompare == CallCompareClauses \/ CallClassifyStatus

SpecCompare == InitCompare /\ [][NextCompare]_vars

(***************************************************************************)
(* SpecClassify: classifyStatus on an arbitrary diff list.                  *)
(***************************************************************************)
ClsRefs == {<<50>>, <<50, 46, 49>>}
ClsSimilarities ==
  {[num |-> 1, den |-> 2], [num |-> 97, den |-> 100], [num |-> 99, den |-> 100]}
ClsDiffs ==
  [clause_ref : ClsRefs, diff_type : {"MISSING", "EXTRA"},
   similarity : {Undefined}]
    \cup [clause_ref : ClsRefs, diff_type : {"CHANGED"},
          similarity : ClsSimilarities]
ClsMinSims == {DefaultCriticalMinSim, [num |-> 99, den |-> 100]}

InitClassify ==
  /\ cmp \in [pc : {"classify"},
              etalonMap : {<<>>}, clientMap : {<<>>},
              opts : {[ignoreRegexes |-> <<>>, similarityThreshold |-> Undefined]},
              criticalSet : SUBSET ClsRefs,
              criticalMinSim : ClsMinSims,
              diffs : SeqsUpTo(ClsDiffs, MaxDiffs), status : {""}]
  /\ scorer = Idle /\ norm = Idle /\ seg = Idle
  /\ UiAtRest

NextClassify == CallClassifyStatus

SpecClassify == InitClassify /\ [][NextClassify]_vars

(***************************************************************************)
(* The UI handlers (app.js:366-454).                                        *)
(*                                                                          *)
(* A file is [name, base, ext, readable, text]: base is the name without a  *)
(* .docx/.pdf extension, readable tells whether the extractor (mammoth,     *)
(* pdf.js) resolves, text is what it extracts.  The state holds a File      *)
(* object as the name of the file ("" for none).  A handler runs without    *)
(* interruption up to an await on the extractor; the await of a promise     *)
(* that is already rejected (unsupported file) resumes before any other     *)
(* event.                                                                   *)
(***************************************************************************)
Preamble == [n \in 1..MinTextLength |-> 120]

\* "xxx...x\n2.1 ab" and "xxx...x\n2 ab"
TextOfClause21 == Preamble \o <<10, 50, 46, 49, 32, 97, 98>>
TextOfClause2 == Preamble \o <<10, 50, 32, 97, 98>>

EtalonFiles ==
  { [name |-> "etalon.docx", base |-> "etalon", ext |-> "docx",
     readable |-> TRUE, text |-> TextOfClause21],
    [name |-> "broken.pdf", base |-> "broken", ext |-> "pdf",
     readable |-> FALSE, text |-> <<>>] }

\* the candidate files of the folder, in the order the file dialog lists them
CandidateFiles ==
  << [name |-> "damaged.pdf", base |-> "damaged", ext |-> "pdf",
      readable |-> FALSE, text |-> <<>>],
     [name |-> "empty.docx", base |-> "empty", ext |-> "docx",
      readable |-> TRUE, text |-> Preamble],
     [name |-> "notes.txt", base |-> "notes", ext |-> "txt",
      readable |-> FALSE, text |-> <<>>],
     [name |-> "other.pdf", base |-> "other", ext |-> "pdf",
      readable |-> TRUE, text |-> TextOfClause2],
     [name |-> "same.docx", base |-> "same", ext |-> "docx",
      readable |-> TRUE, text |-> TextOfClause21],
     [name |-> "short.docx", base |-> "short", ext |-> "docx",
      readable |-> TRUE, text |-> <<50, 46, 49, 32, 97, 98>>] >>

\* the File object of the given name
FileNamed(name) ==
  CHOOSE f \in EtalonFiles \cup {CandidateFiles[n] : n \in 1..Len(CandidateFiles)} :
    f.name = name

Supported(f) == f.ext \in {"docx", "pdf"}

\* f.name.replace(/\.(docx|pdf)$/i, "")
resultName(f) == IF Supported(f) THEN f.base ELSE f.name

\* the value fileToParsed(f) resolves to, for a supported and readable file
fileToParsed(f) ==
  [text    |-> trim(f.text),
   clauses |-> extractClausesFromText(trim(f.text))]

\* setRunEnabled() with the given values of etalonParsed and clientFiles
setRunEnabled(parsed, files) == ~(parsed # Null /\ Len(files) > 0)

\* the reference file behind a value of etalonParsed
etalonOf(parsed) == IF parsed = Null THEN NoFile ELSE parsed.file

\* a result pushed with status NEEDS_REVIEW; the fields invoked and etalon
\* are history: the functions called for the candidate and the reference
\* in etalonParsed when it was handled
needsReview(f, err, invoked, etalon) ==
  [name |-> resultName(f), status |-> "NEEDS_REVIEW", diffs |-> <<>>,
   source_file |-> f.name, error |-> err,
   invoked |-> invoked, etalon |-> etalonOf(etalon)]

\* the body of the loop of the run handler once the parse of f has settled:
\* the results it pushes and the value it leaves in lastRunState
candidateSettled(f, run) ==
  LET called == {"compareClauses", "classifyStatus"}
      compared(diffs) ==
        LET status == classifyStatus(diffs, run.criticalSet, run.criticalMinSim)
            result == [name |-> resultName(f), status |-> status,
                       diffs |-> diffs, source_file |-> f.name,
                       error |-> FALSE, invoked |-> called,
                       etalon |-> etalonOf(etalonParsed)]
        IN  IF lastRunState = Null
            THEN [results |-> <<result,
                                needsReview(f, TRUE, called, etalonParsed)>>,
                  lastRunState |-> lastRunState]
            ELSE [results |-> <<result>>,
                  lastRunState |->
                    [lastRunState EXCEPT
                       !.clients = MapSet(@, resultName(f), f.name)]]
      settled(parsed) ==
        IF \/ parsed.text = <<>>
           \/ Len(parsed.text) < MinTextLength
           \/ Len(parsed.clauses) = 0
        THEN [results |-> <<needsReview(f, FALSE, {}, etalonParsed)>>,
              lastRunState |-> lastRunState]
        ELSE IF etalonParsed = Null
        THEN [results |-> <<needsReview(f, TRUE, {}, etalonParsed)>>,
              lastRunState |-> lastRunState]
        ELSE Eval(compared,
                  compareClauses(etalonParsed.clauses, parsed.clauses,
                    [similarityThreshold |-> run.similarityThreshold,
                     ignoreRegexes |-> run.ignoreRegexes]))
  IN  IF ~f.readable
      THEN [results |-> <<needsReview(f, TRUE, {}, etalonParsed)>>,
            lastRunState |-> lastRunState]
      ELSE Eval(settled, fileToParsed(f))

\* the loop from candidate i on, up to the next await on the extractor: an
\* unsupported file is rejected at once and pushes NEEDS_REVIEW
RECURSIVE skipUnsupported(_, _, _, _)
skipUnsupported(files, i, results, etalon) ==
  IF i <= Len(files) /\ ~Supported(FileNamed(files[i]))
  THEN skipUnsupported(files, i + 1,
                       Append(results,
                              needsReview(FileNamed(files[i]), TRUE, {}, etalon)),
                       etalon)
  ELSE [i |-> i, results |-> results]

\* the run handler goes on from candidate i with the given results and
\* lastRunState: it waits for the next parse (slot r of runs) or, after the
\* last candidate, renders and stores the critical set
runContinues(r, run, i, results, lrs) ==
  LET next == skipUnsupported(run.files, i, results, etalonParsed)
      rest == [n \in 1..(Len(runs) - 1) |-> IF n < r THEN runs[n] ELSE runs[n + 1]]
  IN  IF next.i <= Len(run.files)
      THEN /\ runs' = [runs EXCEPT ![r] = [run EXCEPT !.i = next.i,
                                                     !.results = next.results]]
           /\ lastRunState' = lrs
           /\ UNCHANGED rendered
      ELSE /\ runs' = rest
           /\ rendered' = Append(rendered, [files |-> run.files,
                                            results |-> next.results,
                                            criticalSet |-> run.criticalSet,
                                            interleaved |-> run.interleaved])
           /\ lastRunState' = IF lrs = Null THEN lrs
                              ELSE [lrs EXCEPT !.criticalSet = <<run.criticalSet>>]

(***************************************************************************)
(* Spec: the page with its handlers.                                        *)
(***************************************************************************)
\* the names of the files of list at the indices of S, in the order of the
\* list
RECURSIVE pick(_, _, _)
pick(list, S, n) ==
  IF n > Len(list) THEN <<>>
  ELSE IF n \in S THEN <<list[n].name>> \o pick(list, S, n + 1)
  ELSE pick(list, S, n + 1)

\* what the file dialog can hand to $("clientFiles"): up to MaxFiles files
Selections ==
  {pick(CandidateFiles, S, 1) :
     S \in {T \in SUBSET (1..Len(CandidateFiles)) : Cardinality(T) <= MaxFiles}}

CriticalSets == {{}, {<<50, 46, 49>>}}

Init ==
  /\ scorer = Idle /\ norm = Idle /\ seg = Idle /\ cmp = Idle
  /\ etalonParsed = Null
  /\ clientFiles = <<>>
  /\ lastRunState = Null
  /\ runBtnDisabled \in BOOLEAN
  /\ etalonInput = NoFile
  /\ etalonTasks = <<>>
  /\ runs = <<>>
  /\ rendered = <<>>

\* history: the suspended run handlers have seen another handler write
\* etalonParsed or lastRunState
runsInterleaved == [n \in 1..Len(runs) |-> [runs[n] EXCEPT !.interleaved = TRUE]]

\* $("etalonFile") change, f being the new selection (NoFile: none)
EtalonFileChange(f) ==
  /\ f # etalonInput
  /\ etalonInput' = f
  /\ etalonParsed' = Null
  /\ IF f # NoFile /\ Supported(FileNamed(f))
     THEN /\ Len(etalonTasks) < MaxEtalonTasks
          /\ etalonTasks' = Append(etalonTasks, f)
          /\ UNCHANGED runBtnDisabled
     ELSE /\ runBtnDisabled' = setRunEnabled(Null, clientFiles)
          /\ UNCHANGED etalonTasks
  /\ runs' = runsInterleaved
  /\ UNCHANGED <<clientFiles, lastRunState, rendered>>
  /\ UNCHANGED <<scorer, norm, seg, cmp>>

\* the await of the k-th suspended etalonFile handler settles
EtalonParseSettled(k) ==
  LET f      == FileNamed(etalonTasks[k])
      parsed == IF f.readable
                THEN [file |-> f.name, text |-> fileToParsed(f).text,
                      clauses |-> fileToParsed(f).clauses]
                ELSE etalonParsed
  IN  /\ etalonParsed' = parsed
      /\ runBtnDisabled' = setRunEnabled(parsed, clientFiles)
      /\ etalonTasks' = [n \in 1..(Len(etalonTasks) - 1) |->
                           IF n < k THEN etalonTasks[n] ELSE etalonTasks[n + 1]]
      /\ runs' = runsInterleaved
      /\ UNCHANGED <<clientFiles, lastRunState, etalonInput, rendered>>
      /\ UNCHANGED <<scorer, norm, seg, cmp>>

\* $("clientFiles") change, files being the new selection
ClientFilesChange(files) ==
  /\ files # clientFiles
  /\ clientFiles' = files
  /\ runBtnDisabled' = setRunEnabled(etalonParsed, files)
  /\ UNCHANGED <<etalonParsed, lastRunState, etalonInput, etalonTasks, runs,
                 rendered>>
  /\ UNCHANGED <<scorer, norm, seg, cmp>>

\* $("clearBtn") click
ClearClick ==
  /\ etalonInput' = NoFile
  /\ rendered' = <<>>
  /\ etalonParsed' = Null
  /\ clientFiles' = <<>>
  /\ lastRunState' = Null
  /\ runBtnDisabled' = setRunEnabled(Null, <<>>)
  /\ runs' = runsInterleaved
  /\ UNCHANGED etalonTasks
  /\ UNCHANGED <<scorer, norm, seg, cmp>>

\* $("runBtn") click, with the critical clauses typed in the form
RunClick(criticalSet) ==
  /\ ~runBtnDisabled
  /\ Len(runs) < MaxRuns
  /\ LET run == [files |-> clientFiles, i |-> 1, results |-> <<>>,
                 criticalSet |-> criticalSet,
                 similarityThreshold |-> DefaultSimilarityThreshold,
                 criticalMinSim |-> DefaultCriticalMinSim,
                 ignoreRegexes |-> <<>>, interleaved |-> FALSE]
         next == skipUnsupported(run.files, 1, <<>>, etalonParsed)
         lrs  == [clients |-> <<>>, criticalSet |-> <<>>]
     IN  IF next.i <= Len(run.files)
         THEN /\ runs' = Append(runs, [run EXCEPT !.i = next.i,
                                                 !.results = next.results])
              /\ lastRunState' = lrs
              /\ rendered' = <<>>
         ELSE /\ UNCHANGED runs
              /\ lastRunState' = [lrs EXCEPT !.criticalSet = <<criticalSet>>]
              /\ rendered' = <<[files |-> run.files, results |-> next.results,
                                 criticalSet |-> criticalSet,
                                 interleaved |-> FALSE]>>
  /\ UNCHANGED <<etalonParsed, clientFiles, runBtnDisabled, etalonInput,
                 etalonTasks>>
  /\ UNCHANGED <<scorer, norm, seg, cmp>>

\* the await of the r-th suspended run handler settles
RunParseSettled(r) ==
  LET run == runs[r]
  IN  /\ \E done \in {candidateSettled(FileNamed(run.files[run.i]), run)} :
           runContinues(r, run, run.i + 1, run.results \o done.results,
                        done.lastRunState)
      /\ UNCHANGED <<etalonParsed, clientFiles, runBtnDisabled, etalonInput,
                     etalonTasks>>
      /\ UNCHANGED <<scorer, norm, seg, cmp>>

Next ==
  \/ \E f \in {e.name : e \in EtalonFiles} \cup {NoFile} : EtalonFileChange(f)
  \/ \E k \in 1..Len(etalonTasks) : EtalonParseSettled(k)
  \/ \E files \in Selections : ClientFilesChange(files)
  \/ ClearClick
  \/ \E criticalSet \in CriticalSets : RunClick(criticalSet)
  \/ \E r \in 1..Len(runs) : RunParseSettled(r)

Spec == Init /\ [][Next]_vars

(***************************************************************************)
(* Properties of compareClauses and classifyStatus.                         *)
(***************************************************************************)
CmpThreshold ==
  IF cmp.opts.similarityThreshold = Undefined THEN DefaultSimilarityThreshold
  ELSE cmp.opts.similarityThreshold

\* the score of ref r, present in both maps
CmpScore(r) ==
  similarityRatio(
    normalizeForCompare(MapGet(cmp.etalonMap, r), cmp.opts.ignoreRegexes),
    normalizeForCompare(MapGet(cmp.clientMap, r), cmp.opts.ignoreRegexes))

ExpectedDiffs ==
  {[clause_ref |-> r, diff_type |-> "MISSING", similarity |-> Undefined] :
     r \in MapKeys(cmp.etalonMap) \ MapKeys(cmp.clientMap)}
  \cup
  {[clause_ref |-> r, diff_type |-> "EXTRA", similarity |-> Undefined] :
     r \in MapKeys(cmp.clientMap) \ MapKeys(cmp.etalonMap)}
  \cup
  {[clause_ref |-> r, diff_type |-> "CHANGED", similarity |-> CmpScore(r)] :
     r \in {q \in MapKeys(cmp.etalonMap) \cap MapKeys(cmp.clientMap) :
              RatLt(CmpScore(q), CmpThreshold)}}

\* C1: compareClauses returns exactly one MISSING entry per ref only in the
\* reference, one EXTRA entry per ref only in the candidate, one CHANGED
\* entry with the computed similarity per ref in both that scores strictly
\* below the threshold, and nothing else; no ref appears twice.
C1_ExactlyTheDiscrepancies ==
  cmp.pc \in {"classify", "done"} =>
    /\ {cmp.diffs[n] : n \in 1..Len(cmp.diffs)} = ExpectedDiffs
    /\ \A i, j \in 1..Len(cmp.diffs) :
         i # j => cmp.diffs[i].clause_ref # cmp.diffs[j].clause_ref

\* a comparison that yields a MISSING, an EXTRA and a CHANGED entry
C1_Witness ==
  /\ cmp.pc = "classify"
  /\ Len(cmp.diffs) = 3
  /\ {cmp.diffs[n].diff_type : n \in 1..Len(cmp.diffs)}
       = {"MISSING", "EXTRA", "CHANGED"}
  /\ cmp.opts.ignoreRegexes # <<>>

\* the numeric components of a ref
RefNumbers(a) ==
  LET sa == splitDots(a, <<>>) IN [n \in 1..Len(sa) |-> parseInt(sa[n]).val]

\* the order of the claim: the first differing component decides, a ref goes
\* before every longer ref that extends it, equal numbers are ordered by the
\* raw strings
ClaimedRefBefore(a, b) ==
  LET pa == RefNumbers(a)
      pb == RefNumbers(b)
      n  == IF Len(pa) <= Len(pb) THEN Len(pa) ELSE Len(pb)
  IN  \/ \E i \in 1..n : pa[i] < pb[i] /\ \A q \in 1..(i - 1) : pa[q] = pb[q]
      \/ Len(pa) < Len(pb) /\ \A q \in 1..n : pa[q] = pb[q]
      \/ pa = pb /\ localeCompare(a, b) < 0

\* C2 as claimed: the list returned by compareClauses is ordered by clause
\* reference, components compared numerically, a reference before every
\* longer reference that extends it ("2" before "2.1"), ties broken by the
\* raw strings.
C2_OrderedByClauseRef ==
  cmp.pc \in {"classify", "done"} =>
    \A i, j \in 1..Len(cmp.diffs) :
      i < j => ClaimedRefBefore(cmp.diffs[i].clause_ref, cmp.diffs[j].clause_ref)

\* a diff of the list that makes a critical failure
CriticalFailure(d, criticalSet, criticalMinSim) ==
  /\ d.clause_ref \in criticalSet
  /\ \/ d.diff_type = "MISSING"
     \/ d.diff_type = "CHANGED" /\ RatLt(d.similarity, criticalMinSim)

IndexPermutations(n) ==
  {f \in [1..n -> 1..n] : \A i, j \in 1..n : i # j => f[i] # f[j]}

\* C3: classifyStatus returns OK iff the list is empty, NOT_APPLIED iff some
\* diff on a critical clause is MISSING or CHANGED with similarity below
\* criticalMinSimilarity, DIFFS otherwise; and the same for every
\* permutation of the list.
C3_StatusOfDiffs ==
  cmp.pc = "done" =>
    LET failed == \E n \in 1..Len(cmp.diffs) :
                    CriticalFailure(cmp.diffs[n], cmp.criticalSet,
                                    cmp.criticalMinSim)
    IN  /\ cmp.status = "OK" <=> cmp.diffs = <<>>
        /\ cmp.status = "NOT_APPLIED" <=> failed
        /\ cmp.status = "DIFFS" <=> (cmp.diffs # <<>> /\ ~failed)
        /\ \A f \in IndexPermutations(Len(cmp.diffs)) :
             classifyStatus([n \in 1..Len(cmp.diffs) |-> cmp.diffs[f[n]]],
                            cmp.criticalSet, cmp.criticalMinSim) = cmp.status

\* a list of three diffs whose only critical failure is a MISSING diff in the
\* last place, after an EXTRA and a CHANGED diff on the same critical clause
C3_Witness ==
  /\ cmp.pc = "done"
  /\ cmp.status = "NOT_APPLIED"
  /\ Len(cmp.diffs) = 3
  /\ cmp.diffs[3].diff_type = "MISSING"
  /\ cmp.diffs[3].clause_ref \in cmp.criticalSet
  /\ cmp.diffs[1].diff_type = "EXTRA"
  /\ cmp.diffs[2].diff_type = "CHANGED"
  /\ cmp.diffs[1].clause_ref \in cmp.criticalSet
  /\ cmp.diffs[2].clause_ref \in cmp.criticalSet
  /\ ~RatLt(cmp.diffs[2].similarity, cmp.criticalMinSim)

\* C7 as claimed: for every clause map, ignore-pattern list and threshold,
\* comparing the map with an identical candidate map returns an empty diff
\* list, which classifies as OK.
C7_IdenticalMapsOk ==
  /\ (cmp.pc \in {"classify", "done"} /\ cmp.clientMap = cmp.etalonMap)
       => cmp.diffs = <<>>
  /\ (cmp.pc = "done" /\ cmp.clientMap = cmp.etalonMap)
       => cmp.status = "OK"

\* C7 amended: the same for every threshold that is at most 1 (or left at
\* its default); identical bodies score exactly 1, which is below any
\* larger threshold.
C7_IdenticalMapsOkUpToOne ==
  /\ (/\ cmp.pc \in {"classify", "done"}
      /\ cmp.clientMap = cmp.etalonMap
      /\ ~RatLt([num |-> 1, den |-> 1], CmpThreshold))
       => cmp.diffs = <<>>
  /\ (/\ cmp.pc = "done"
      /\ cmp.clientMap = cmp.etalonMap
      /\ ~RatLt([num |-> 1, den |-> 1], CmpThreshold))
       => cmp.status = "OK"

\* two identical maps of two clauses compared at threshold 1 with an ignore
\* pattern, and classified
C7_Witness ==
  /\ cmp.pc = "done"
  /\ cmp.clientMap = cmp.etalonMap
  /\ Len(cmp.etalonMap) = 2
  /\ cmp.opts.ignoreRegexes # <<>>
  /\ cmp.opts.similarityThreshold = [num |-> 1, den |-> 1]
  /\ cmp.status = "OK"

(***************************************************************************)
(* Reference Ratcliff/Obershelp recursion, stated on the set of common runs *)
(* (used by the properties only).                                           *)
(***************************************************************************)
\* every run a[i..i+len) = b[j..j+len) with len >= 1 (0-based starts)
CommonRuns(a, b) ==
  {r \in [i : 0..Len(a), j : 0..Len(b), len : 1..Max(Len(a), Len(b))] :
     /\ r.i + r.len <= Len(a)
     /\ r.j + r.len <= Len(b)
     /\ Slice(a, r.i, r.i + r.len) = Slice(b, r.j, r.j + r.len)}

\* r is at least as good as q: longer, then earlier in a, then earlier in b
RunBefore(r, q) ==
  \/ r.len > q.len
  \/ r.len = q.len /\ r.i < q.i
  \/ r.len = q.len /\ r.i = q.i /\ r.j <= q.j

RefBlock(a, b) ==
  CHOOSE r \in CommonRuns(a, b) : \A q \in CommonRuns(a, b) : RunBefore(r, q)

RECURSIVE RefMatched(_, _)
RefMatched(a, b) ==
  IF CommonRuns(a, b) = {} THEN 0
  ELSE LET r == RefBlock(a, b)
       IN  r.len + RefMatched(Slice(a, 0, r.i), Slice(b, 0, r.j))
                 + RefMatched(Slice(a, r.i + r.len, Len(a)),
                              Slice(b, r.j + r.len, Len(b)))

\* the longest common run is attained at one position pair only, at every
\* level of the recursion
RECURSIVE TieFree(_, _)
TieFree(a, b) ==
  IF CommonRuns(a, b) = {} THEN TRUE
  ELSE LET r == RefBlock(a, b)
       IN  /\ \A q \in CommonRuns(a, b) : q.len = r.len => q = r
           /\ TieFree(Slice(a, 0, r.i), Slice(b, 0, r.j))
           /\ TieFree(Slice(a, r.i + r.len, Len(a)),
                      Slice(b, r.j + r.len, Len(b)))

\* C4: similarityRatio(a, b) is 1 for two empty strings and otherwise
\* 2*M/(len(a)+len(b)), M being the matched length of the reference
\* recursion (longest common run, earliest in a, then earliest in b, then
\* the parts before and after it).
C4_RatioIsReferenceRO ==
  scorer.pc = "return" =>
    IF scorer.a = <<>> /\ scorer.b = <<>>
    THEN RatEq(scorer.ratio, [num |-> 1, den |-> 1])
    ELSE RatEq(scorer.ratio, [num |-> 2 * RefMatched(scorer.a, scorer.b),
                              den |-> Len(scorer.a) + Len(scorer.b)])

\* a scored pair with two longest common runs, where the tie-break decides
C4_Witness ==
  /\ scorer.pc = "return"
  /\ scorer.ratio.num > 0
  /\ ~TieFree(scorer.a, scorer.b)
  /\ scorer.a # scorer.b

Unusable(f) ==
  \/ ~Supported(f)
  \/ ~f.readable
  \/ Len(trim(f.text)) < MinTextLength
  \/ extractClausesFromText(trim(f.text)) = <<>>

\* status and diffs of a usable candidate f handled alone against the
\* reference the run sees, with the critical set cs
ExpectedOutcome(f, etalon, cs) ==
  IF etalon = NoFile
  THEN [status |-> "NEEDS_REVIEW", diffs |-> <<>>]
  ELSE LET diffs == compareClauses(fileToParsed(FileNamed(etalon)).clauses,
                                   fileToParsed(f).clauses,
                      [similarityThreshold |-> DefaultSimilarityThreshold,
                       ignoreRegexes |-> <<>>])
       IN  [status |-> classifyStatus(diffs, cs, DefaultCriticalMinSim),
            diffs |-> diffs]

\* one rendered batch: one result per candidate, in order; NEEDS_REVIEW with
\* no diffs for a failing candidate; the outcome of the candidate alone for
\* every other
BatchComplete(batch) ==
  /\ Len(batch.results) = Len(batch.files)
  /\ \A j \in 1..Len(batch.files) :
       LET f   == FileNamed(batch.files[j])
           res == batch.results[j]
       IN  /\ res.source_file = f.name
           /\ Unusable(f) => (res.status = "NEEDS_REVIEW" /\ res.diffs = <<>>)
           /\ ~Unusable(f) =>
                [status |-> res.status, diffs |-> res.diffs]
                  = ExpectedOutcome(f, res.etalon, batch.criticalSet)

\* C8 as claimed: under every interleaving of the handlers, a candidate is
\* reported NEEDS_REVIEW only when that candidate itself yields no usable
\* clause map, and neither compareClauses nor classifyStatus was invoked for
\* a candidate reported NEEDS_REVIEW.
C8_NeedsReviewOnlyOwnFailure ==
  \A k \in 1..Len(rendered) :
    \A j \in 1..Len(rendered[k].results) :
      LET res == rendered[k].results[j]
      IN  res.status = "NEEDS_REVIEW" =>
            (Unusable(FileNamed(res.source_file)) /\ res.invoked = {})

\* C9 as claimed: whatever candidates fail, a run reaches the end of the
\* batch with exactly one result per candidate; a failing candidate's result
\* is NEEDS_REVIEW with an empty diff list and every other candidate has the
\* status and diffs it has when no candidate fails.
C9_OneResultPerCandidate ==
  \A k \in 1..Len(rendered) : BatchComplete(rendered[k])

\* a run during which no other handler wrote etalonParsed or lastRunState
\* renders a complete batch
UninterleavedBatchComplete ==
  \A k \in 1..Len(rendered) :
    ~rendered[k].interleaved => BatchComplete(rendered[k])

\* an uninterleaved run over a failing and a usable candidate is rendered
UninterleavedBatchRendered ==
  \E k \in 1..Len(rendered) :
    /\ ~rendered[k].interleaved
    /\ \E j \in 1..Len(rendered[k].files) :
         Unusable(FileNamed(rendered[k].files[j]))
    /\ \E j \in 1..Len(rendered[k].results) : rendered[k].results[j].status = "OK"

(***************************************************************************)
(* Properties of the stored reference.                                      *)
(***************************************************************************)
\* what the selection f of $("etalonFile") parses to: null when nothing is
\* selected or the parse of f fails
ParseOfSelection(f) ==
  IF f = NoFile THEN Null
  ELSE IF ~Supported(FileNamed(f)) \/ ~FileNamed(f).readable THEN Null
  ELSE [file    |-> f,
        text    |-> fileToParsed(FileNamed(f)).text,
        clauses |-> fileToParsed(FileNamed(f)).clauses]

\* C11 as claimed: once no parse of a reference file is pending,
\* etalonParsed is the parse of the most recently selected reference file,
\* or null if that parse failed or the selection was emptied; a parse of an
\* earlier selection that completes late never replaces it.
C11_StoredReferenceIsLatestSelection ==
  etalonTasks = <<>> => etalonParsed = ParseOfSelection(etalonInput)

====
